---- MODULE Spec2Model ----
(***************************************************************************)
(* Model of src/src/main.rs (kromych/vm_settings): main, init_com,         *)
(* connect_hyperv_wmi and get_hyperv_vm_settings, one action per call the  *)
(* program makes to COM / WMI / OLE Automation, in program order.          *)
(***************************************************************************)
EXTENDS Integers, Sequences, FiniteSets, TLC

(* ---------------- bounds of the model ---------------- *)
\* rows the WQL query may match
MaxRows == 2
\* attributes of the first row that are not plain text properties
MaxOdd == 1

(* ---------------- record shape ---------------- *)
\* the 13 property names passed to row.Get, in call order
AttrNames ==
  << "VirtualSystemIdentifier", "ConfigurationDataRoot", "ConfigurationFile",
     "FirmwareFile", "FirmwareParameters", "GuestStateDataRoot",
     "GuestStateFile", "GuestStateIsolationEnabled", "GuestStateIsolationType",
     "IsSaved", "VirtualSystemSubType", "SecureBootEnabled",
     "TurnOffOnGuestRestart" >>

\* the 13 fields of struct HyperVVmSettings, in declaration order
FieldNames ==
  << "virtual_system_identifier", "configuration_data_root", "configuration_file",
     "firmware_file", "firmware_parameters", "guest_state_data_root",
     "guest_state_file", "guest_state_isolation_enabled",
     "guest_state_isolation_type", "is_saved", "virtual_system_sub_type",
     "secure_boot_enabled", "turn_off_on_guest_restart" >>

N == Len(AttrNames)

Idx == 1..N

(* ---------------- provider data ---------------- *)
\* what a property of a row can hold
Kinds == {"text", "astral", "malformed", "bool", "number", "array", "absent"}

OddKinds == Kinds \ {"text"}

\* VARIANT produced by IWbemClassObject::Get for property a of the k-th row
\* of the given kind; payloads are sequences of integers
VariantOf(kind, a, k) ==
  CASE kind = "text"      -> [vt |-> "BSTR",  val |-> <<64 + a, 48 + k>>]
    [] kind = "astral"    -> [vt |-> "BSTR",  val |-> <<55357, 56832 + a>>]
    [] kind = "malformed" -> [vt |-> "BSTR",  val |-> <<64 + a, 55296 + k>>]
    [] kind = "bool"      -> [vt |-> "BOOL",  val |-> <<a % 2>>]
    [] kind = "number"    -> [vt |-> "I4",    val |-> <<10 * a + k>>]
    [] kind = "array"     -> [vt |-> "ARRAY", val |-> <<a, k>>]

\* a row: property name -> <<>> (not defined on the row) or <<VARIANT>>
MakeRow(S, f, k) ==
  [ nm \in {AttrNames[a] : a \in Idx} |->
      LET a == CHOOSE b \in Idx : AttrNames[b] = nm
          kind == IF a \in S THEN f[a] ELSE "text"
      IN IF kind = "absent" THEN <<>> ELSE <<VariantOf(kind, a, k)>> ]

PlainRow(k) == MakeRow({}, <<>>, k)

OddSets == {S \in SUBSET Idx : Cardinality(S) <= MaxOdd}

\* VARIANT::default()
VT_EMPTY == [vt |-> "EMPTY", val |-> <<>>]

(* ---------------- pure conversions ---------------- *)
RECURSIVE Digits(_)
\* decimal rendering of a non-negative integer as UTF-16 code units
Digits(n) ==
  IF n < 10 THEN <<48 + n>> ELSE Digits(n \div 10) \o <<48 + (n % 10)>>

\* VarFormat(&var, None, FIRST_DAY_SYSTEMDEFAULT, FIRST_WEEK_SYSTEMDEFAULT, 0):
\* the BSTR (UTF-16 code units) for a scalar, a type mismatch for an array
VarFormat(v) ==
  CASE v.vt = "BSTR"  -> [ok |-> TRUE, bstr |-> v.val]
    [] v.vt = "BOOL"  -> [ok |-> TRUE,
                          bstr |-> IF v.val[1] = 1 THEN <<84, 114, 117, 101>>
                                                   ELSE <<70, 97, 108, 115, 101>>]
    [] v.vt = "I4"    -> [ok |-> TRUE, bstr |-> Digits(v.val[1])]
    [] v.vt = "EMPTY" -> [ok |-> TRUE, bstr |-> <<>>]
    [] v.vt = "ARRAY" -> [ok |-> FALSE, bstr |-> <<>>]

RECURSIVE from_utf16(_)
\* String::from_utf16: code units -> scalar values, surrogate pairs combined,
\* an unpaired surrogate is an error
from_utf16(w) ==
  IF w = <<>> THEN [ok |-> TRUE, s |-> <<>>]
  ELSE LET u == Head(w) IN
    IF u < 55296 \/ u > 57343
    THEN LET r == from_utf16(Tail(w))
         IN [ok |-> r.ok, s |-> IF r.ok THEN <<u>> \o r.s ELSE <<>>]
    ELSE IF u <= 56319 /\ Len(w) >= 2 /\ w[2] >= 56320 /\ w[2] <= 57343
    THEN LET r == from_utf16(Tail(Tail(w)))
             c == 65536 + (u - 55296) * 1024 + (w[2] - 56320)
         IN [ok |-> r.ok, s |-> IF r.ok THEN <<c>> \o r.s ELSE <<>>]
    ELSE [ok |-> FALSE, s |-> <<>>]

(* ---------------- state ---------------- *)
VARIABLES
  pc,          \* next call of the program
  idx,         \* position inside the current block of 13 calls
  resultSet,   \* rows matching the query, held by the provider
  cursorPos,   \* rows the enumerator has been advanced past
  query,       \* the IEnumWbemClassObject handle: "none", "live", "released"
  hr,          \* HRESULT of query.Next: "" before the call
  row,         \* row[0]: <<>> (None) or <<k>>, the k-th row of resultSet
  rowHandle,   \* the IWbemClassObject reference: "none", "live", "released"
  variant,     \* the 13 *_var locals
  bstr,        \* the 13 BSTR locals bound by VarFormat: <<>> or <<code units>>
  decoded,     \* the 13 String locals bound by from_utf16: <<>> or <<string>>
  outstanding, \* positions whose fetched value has not been cleared
  execCalls,   \* calls of ExecQuery
  nextCalls,   \* calls of IEnumWbemClassObject::Next
  getCalls,    \* calls of row.Get per position
  rowsRead,    \* indices of resultSet rows that row.Get was called on
  clears,      \* successful VariantClear calls per position
  result,      \* value returned by get_hyperv_vm_settings
  stdout,      \* <<>> or <<record>> printed by main
  exitCode     \* -1 while running, 0 on Ok(()), 1 on Err

vars == << pc, idx, resultSet, cursorPos, query, hr, row, rowHandle, variant, bstr,
           decoded, outstanding, execCalls, nextCalls, getCalls, rowsRead,
           clears, result, stdout, exitCode >>

Pending == [status |-> "pending", err |-> "", step |-> "", at |-> 0, rec |-> <<>>]

Err(cause, step, at) ==
  [status |-> "Err", err |-> cause, step |-> step, at |-> at, rec |-> <<>>]

Ok(rec) == [status |-> "Ok", err |-> "", step |-> "", at |-> 0, rec |-> <<rec>>]

Init ==
  /\ pc = "init_com"
  /\ idx = 1
  /\ \E n \in 0..MaxRows :
       \E S \in OddSets :
         \E f \in [S -> OddKinds] :
           /\ (n = 0 => S = {})
           /\ resultSet = [k \in 1..n |-> IF k = 1 THEN MakeRow(S, f, 1)
                                                   ELSE PlainRow(k)]
  /\ cursorPos = 0
  /\ query = "none"
  /\ hr = ""
  /\ row = <<>>
  /\ rowHandle = "none"
  /\ variant = [i \in Idx |-> VT_EMPTY]
  /\ bstr = [i \in Idx |-> <<>>]
  /\ decoded = [i \in Idx |-> <<>>]
  /\ outstanding = {}
  /\ execCalls = 0
  /\ nextCalls = 0
  /\ getCalls = [i \in Idx |-> 0]
  /\ rowsRead = {}
  /\ clears = [i \in Idx |-> 0]
  /\ result = Pending
  /\ stdout = <<>>
  /\ exitCode = -1

\* the `?` operator inside get_hyperv_vm_settings: leave with Err
Fail(cause, step, at) ==
  /\ result' = Err(cause, step, at)
  /\ pc' = "return"

\* after the i-th call of a block: the next call of the block, or the next block
Advance(block, nextBlock) ==
  IF idx < N THEN pc' = block /\ idx' = idx + 1
             ELSE pc' = nextBlock /\ idx' = 1

(* ---------------- main, before the record build ---------------- *)
init_com ==
  /\ pc = "init_com"
  /\ \/ pc' = "connect" /\ UNCHANGED exitCode
     \/ pc' = "done" /\ exitCode' = 1
  /\ UNCHANGED << idx, resultSet, cursorPos, query, hr, row, rowHandle, variant,
                  bstr, decoded, outstanding, execCalls, nextCalls, getCalls,
                  rowsRead, clears, result, stdout >>

connect_hyperv_wmi ==
  /\ pc = "connect"
  /\ \/ pc' = "ExecQuery" /\ UNCHANGED exitCode
     \/ pc' = "done" /\ exitCode' = 1
  /\ UNCHANGED << idx, resultSet, cursorPos, query, hr, row, rowHandle, variant,
                  bstr, decoded, outstanding, execCalls, nextCalls, getCalls,
                  rowsRead, clears, result, stdout >>

(* ---------------- get_hyperv_vm_settings ---------------- *)
ExecQuery ==
  /\ pc = "ExecQuery"
  /\ execCalls' = execCalls + 1
  /\ \/ pc' = "Next" /\ query' = "live" /\ UNCHANGED result
     \/ Fail("ExecQuery", "ExecQuery", 0) /\ UNCHANGED query
  /\ UNCHANGED << idx, resultSet, cursorPos, hr, row, rowHandle, variant,
                  bstr, decoded, outstanding, nextCalls, getCalls, rowsRead,
                  clears, stdout, exitCode >>

\* Next_ with an empty result set turned into an all-default record
Next_defaults ==
  /\ pc = "Next"
  /\ nextCalls' = nextCalls + 1
  /\ \/ /\ hr' = "WBEM_E_FAILED"
        /\ Fail("Next", "Next", 0)
        /\ UNCHANGED << cursorPos, row, rowHandle, idx >>
     \/ /\ cursorPos < Len(resultSet)
        /\ hr' = "WBEM_S_NO_ERROR"
        /\ cursorPos' = cursorPos + 1
        /\ row' = <<cursorPos + 1>>
        /\ rowHandle' = "live"
        /\ pc' = "Get" /\ idx' = 1
        /\ UNCHANGED result
     \/ /\ cursorPos >= Len(resultSet)
        /\ hr' = "WBEM_S_FALSE"
        /\ result' = Ok([fld \in {FieldNames[i] : i \in Idx} |-> <<>>])
        /\ pc' = "return"
        /\ UNCHANGED << cursorPos, row, rowHandle, idx >>
  /\ UNCHANGED << resultSet, query, variant, bstr, decoded, outstanding,
                  execCalls, getCalls, rowsRead, clears, stdout, exitCode >>

\* Next_ with a failed advance tried again
Next_retry ==
  /\ pc = "Next"
  /\ nextCalls' = nextCalls + 1
  /\ \/ /\ hr' = "WBEM_E_FAILED"
        /\ UNCHANGED << pc, result, cursorPos, row, rowHandle, idx >>
     \/ /\ cursorPos < Len(resultSet)
        /\ hr' = "WBEM_S_NO_ERROR"
        /\ cursorPos' = cursorPos + 1
        /\ row' = <<cursorPos + 1>>
        /\ rowHandle' = "live"
        /\ pc' = "Get" /\ idx' = 1
        /\ UNCHANGED result
     \/ /\ cursorPos >= Len(resultSet)
        /\ hr' = "WBEM_S_FALSE"
        /\ Fail("Not found", "bail", 0)
        /\ UNCHANGED << cursorPos, row, rowHandle, idx >>
  /\ UNCHANGED << resultSet, query, variant, bstr, decoded, outstanding,
                  execCalls, getCalls, rowsRead, clears, stdout, exitCode >>

\* query.Next(-1, &mut row, &mut returned).ok()? and the test of row[0]
Next_ ==
  /\ pc = "Next"
  /\ nextCalls' = nextCalls + 1
  /\ \/ /\ hr' = "WBEM_E_FAILED"
        /\ Fail("Next", "Next", 0)
        /\ UNCHANGED << cursorPos, row, rowHandle, idx >>
     \/ /\ cursorPos < Len(resultSet)
        /\ hr' = "WBEM_S_NO_ERROR"
        /\ cursorPos' = cursorPos + 1
        /\ row' = <<cursorPos + 1>>
        /\ rowHandle' = "live"
        /\ pc' = "Get" /\ idx' = 1
        /\ UNCHANGED result
     \/ /\ cursorPos >= Len(resultSet)
        /\ hr' = "WBEM_S_FALSE"
        /\ Fail("Not found", "bail", 0)
        /\ UNCHANGED << cursorPos, row, rowHandle, idx >>
  /\ UNCHANGED << resultSet, query, variant, bstr, decoded, outstanding,
                  execCalls, getCalls, rowsRead, clears, stdout, exitCode >>

\* Get with a property the row does not define left at its default
Get_default ==
  /\ pc = "Get"
  /\ getCalls' = [getCalls EXCEPT ![idx] = @ + 1]
  /\ rowsRead' = rowsRead \cup {row[1]}
  /\ LET prop == resultSet[row[1]][AttrNames[idx]] IN
     \/ /\ Fail("WBEM_E_FAILED", "Get", idx)
        /\ UNCHANGED << idx, variant, outstanding >>
     \/ /\ prop = <<>>
        /\ Advance("Get", "VarFormat")
        /\ UNCHANGED << result, variant, outstanding >>
     \/ /\ prop # <<>>
        /\ variant' = [variant EXCEPT ![idx] = prop[1]]
        /\ outstanding' = outstanding \cup {idx}
        /\ Advance("Get", "VarFormat")
        /\ UNCHANGED result
  /\ UNCHANGED << resultSet, cursorPos, query, hr, row, rowHandle, bstr, decoded,
                  execCalls, nextCalls, clears, stdout, exitCode >>

\* the idx-th row.Get(name, 0, &mut var, null, null)?
Get ==
  /\ pc = "Get"
  /\ getCalls' = [getCalls EXCEPT ![idx] = @ + 1]
  /\ rowsRead' = rowsRead \cup {row[1]}
  /\ LET prop == resultSet[row[1]][AttrNames[idx]] IN
     \/ /\ Fail("WBEM_E_FAILED", "Get", idx)
        /\ UNCHANGED << idx, variant, outstanding >>
     \/ /\ prop = <<>>
        /\ Fail("WBEM_E_NOT_FOUND", "Get", idx)
        /\ UNCHANGED << idx, variant, outstanding >>
     \/ /\ prop # <<>>
        /\ variant' = [variant EXCEPT ![idx] = prop[1]]
        /\ outstanding' = outstanding \cup {idx}
        /\ Advance("Get", "VarFormat")
        /\ UNCHANGED result
  /\ UNCHANGED << resultSet, cursorPos, query, hr, row, rowHandle, bstr, decoded,
                  execCalls, nextCalls, clears, stdout, exitCode >>

\* VarFormat_ with a type mismatch turned into an empty text
VarFormat_default ==
  /\ pc = "VarFormat"
  /\ LET r == VarFormat(variant[idx]) IN
     /\ bstr' = [bstr EXCEPT ![idx] = <<r.bstr>>]
     /\ Advance("VarFormat", "VariantClear")
     /\ UNCHANGED result
  /\ UNCHANGED << resultSet, cursorPos, query, hr, row, rowHandle, variant, decoded,
                  outstanding, execCalls, nextCalls, getCalls, rowsRead, clears,
                  stdout, exitCode >>

\* the idx-th VarFormat(&var, ...)?
VarFormat_ ==
  /\ pc = "VarFormat"
  /\ LET r == VarFormat(variant[idx]) IN
     \/ /\ r.ok
        /\ bstr' = [bstr EXCEPT ![idx] = <<r.bstr>>]
        /\ Advance("VarFormat", "VariantClear")
        /\ UNCHANGED result
     \/ /\ ~r.ok
        /\ Fail("DISP_E_TYPEMISMATCH", "VarFormat", idx)
        /\ UNCHANGED << idx, bstr >>
  /\ UNCHANGED << resultSet, cursorPos, query, hr, row, rowHandle, variant, decoded,
                  outstanding, execCalls, nextCalls, getCalls, rowsRead, clears,
                  stdout, exitCode >>

\* VariantClear with the 13 locals cleared in the reverse order
VariantClear_reversed ==
  /\ pc = "VariantClear"
  /\ \/ /\ variant' = [variant EXCEPT ![N + 1 - idx] = VT_EMPTY]
        /\ outstanding' = outstanding \ {N + 1 - idx}
        /\ clears' = [clears EXCEPT ![N + 1 - idx] = @ + 1]
        /\ Advance("VariantClear", "from_utf16")
        /\ UNCHANGED result
     \/ /\ Fail("VariantClear", "VariantClear", idx)
        /\ UNCHANGED << idx, variant, outstanding, clears >>
  /\ UNCHANGED << resultSet, cursorPos, query, hr, row, rowHandle, bstr, decoded,
                  execCalls, nextCalls, getCalls, rowsRead, stdout, exitCode >>

\* the idx-th VariantClear(&mut var)?
VariantClear ==
  /\ pc = "VariantClear"
  /\ \/ /\ variant' = [variant EXCEPT ![idx] = VT_EMPTY]
        /\ outstanding' = outstanding \ {idx}
        /\ clears' = [clears EXCEPT ![idx] = @ + 1]
        /\ Advance("VariantClear", "from_utf16")
        /\ UNCHANGED result
     \/ /\ Fail("VariantClear", "VariantClear", idx)
        /\ UNCHANGED << idx, variant, outstanding, clears >>
  /\ UNCHANGED << resultSet, cursorPos, query, hr, row, rowHandle, bstr, decoded,
                  execCalls, nextCalls, getCalls, rowsRead, stdout, exitCode >>

\* Decode with malformed text turned into an empty string
Decode_lossy ==
  /\ pc = "from_utf16"
  /\ LET r == from_utf16(bstr[idx][1]) IN
     /\ decoded' = [decoded EXCEPT ![idx] = <<r.s>>]
     /\ Advance("from_utf16", "Ok")
     /\ UNCHANGED result
  /\ UNCHANGED << resultSet, cursorPos, query, hr, row, rowHandle, variant, bstr,
                  outstanding, execCalls, nextCalls, getCalls, rowsRead, clears,
                  stdout, exitCode >>

\* the idx-th String::from_utf16(text.as_wide())?
Decode ==
  /\ pc = "from_utf16"
  /\ LET r == from_utf16(bstr[idx][1]) IN
     \/ /\ r.ok
        /\ decoded' = [decoded EXCEPT ![idx] = <<r.s>>]
        /\ Advance("from_utf16", "Ok")
        /\ UNCHANGED result
     \/ /\ ~r.ok
        /\ Fail("FromUtf16Error", "from_utf16", idx)
        /\ UNCHANGED << idx, decoded >>
  /\ UNCHANGED << resultSet, cursorPos, query, hr, row, rowHandle, variant, bstr,
                  outstanding, execCalls, nextCalls, getCalls, rowsRead, clears,
                  stdout, exitCode >>

\* Construct with the values of two adjacent fields exchanged
Construct_swapped ==
  /\ pc = "Ok"
  /\ result' = Ok([fld \in {FieldNames[i] : i \in Idx} |->
                     LET i == CHOOSE j \in Idx : FieldNames[j] = fld
                         k == IF i = 2 THEN 3 ELSE IF i = 3 THEN 2 ELSE i
                     IN decoded[k][1]])
  /\ pc' = "return"
  /\ UNCHANGED << idx, resultSet, cursorPos, query, hr, row, rowHandle, variant,
                  bstr, decoded, outstanding, execCalls, nextCalls, getCalls,
                  rowsRead, clears, stdout, exitCode >>

\* Ok(HyperVVmSettings { .. }): each field takes the local of the same name
Construct ==
  /\ pc = "Ok"
  /\ result' = Ok([fld \in {FieldNames[i] : i \in Idx} |->
                     decoded[CHOOSE i \in Idx : FieldNames[i] = fld][1]])
  /\ pc' = "return"
  /\ UNCHANGED << idx, resultSet, cursorPos, query, hr, row, rowHandle, variant,
                  bstr, decoded, outstanding, execCalls, nextCalls, getCalls,
                  rowsRead, clears, stdout, exitCode >>

\* ScopeExit with the enumerator reference kept
ScopeExit_leak ==
  /\ pc = "return"
  /\ rowHandle' = IF rowHandle = "live" THEN "released" ELSE rowHandle
  /\ pc' = "main"
  /\ UNCHANGED << idx, resultSet, cursorPos, query, hr, row, variant, bstr, decoded,
                  outstanding, execCalls, nextCalls, getCalls, rowsRead, clears,
                  result, stdout, exitCode >>

\* leaving the function: the locals `row` and `query` are dropped, which
\* releases the COM references they hold; the VARIANT locals have no Drop
ScopeExit ==
  /\ pc = "return"
  /\ query' = IF query = "live" THEN "released" ELSE query
  /\ rowHandle' = IF rowHandle = "live" THEN "released" ELSE rowHandle
  /\ pc' = "main"
  /\ UNCHANGED << idx, resultSet, cursorPos, hr, row, variant, bstr, decoded,
                  outstanding, execCalls, nextCalls, getCalls, rowsRead, clears,
                  result, stdout, exitCode >>

(* ---------------- main, after the record build ---------------- *)
\* MainFinish with the error of the record build swallowed
MainFinish_swallow ==
  /\ pc = "main"
  /\ \/ /\ result.status = "Ok"
        /\ stdout' = result.rec
        /\ exitCode' = 0
     \/ /\ result.status = "Err"
        /\ exitCode' = 0
        /\ UNCHANGED stdout
  /\ pc' = "done"
  /\ UNCHANGED << idx, resultSet, cursorPos, query, hr, row, rowHandle, variant,
                  bstr, decoded, outstanding, execCalls, nextCalls, getCalls,
                  rowsRead, clears, result >>

\* let settings = get_hyperv_vm_settings(..)?; println!("{settings:#?}"); Ok(())
MainFinish ==
  /\ pc = "main"
  /\ \/ /\ result.status = "Ok"
        /\ stdout' = result.rec
        /\ exitCode' = 0
     \/ /\ result.status = "Err"
        /\ exitCode' = 1
        /\ UNCHANGED stdout
  /\ pc' = "done"
  /\ UNCHANGED << idx, resultSet, cursorPos, query, hr, row, rowHandle, variant,
                  bstr, decoded, outstanding, execCalls, nextCalls, getCalls,
                  rowsRead, clears, result >>

Next ==
  \/ init_com
  \/ connect_hyperv_wmi
  \/ ExecQuery
  \/ Next_
  \/ Get
  \/ VarFormat_
  \/ VariantClear
  \/ Decode
  \/ Construct
  \/ ScopeExit
  \/ MainFinish

Spec == Init /\ [][Next]_vars

(* ======================= properties ======================= *)
\* get_hyperv_vm_settings has returned to main
Returned == pc \in {"main", "done"} /\ result.status # "pending"

\* the row the single cursor advance yielded
HasRow == row # <<>>

Absent(a) == resultSet[1][AttrNames[a]] = <<>>

Unrenderable(a) == ~Absent(a) /\ ~VarFormat(resultSet[1][AttrNames[a]][1]).ok

Malformed(a) ==
  /\ ~Absent(a)
  /\ VarFormat(resultSet[1][AttrNames[a]][1]).ok
  /\ ~from_utf16(VarFormat(resultSet[1][AttrNames[a]][1]).bstr).ok

\* decoded formatted text of the first row's property with the a-th name
Expected(a) == from_utf16(VarFormat(resultSet[1][AttrNames[a]][1]).bstr).s

Field(a) == result.rec[1][FieldNames[a]]

ProviderFailure == result.err \in {"ExecQuery", "Next", "WBEM_E_FAILED", "VariantClear"}

\* C1: once get_hyperv_vm_settings has returned, every value that row.Get
\* delivered has been cleared, and no value is ever cleared twice
C1_ReleasedExactlyOnce ==
  /\ Returned => outstanding = {}
  /\ \A i \in Idx : clears[i] <= 1

\* C2 (as stated): a row that lacks an attribute still gives Ok, with that
\* field empty and every other field set from the row
C2_AbsentDefaults ==
  \A a \in Idx :
    (Returned /\ HasRow /\ Absent(a) /\ ~ProviderFailure)
      => /\ result.status = "Ok"
         /\ Field(a) = <<>>
         /\ \A b \in Idx \ {a} :
              (~Absent(b) /\ ~Unrenderable(b) /\ ~Malformed(b)) => Field(b) = Expected(b)

\* C2 (amended): a row that lacks an attribute makes the build return Err and
\* no record; it fails at a row.Get no later than that attribute, with
\* WBEM_E_NOT_FOUND only at an attribute the row lacks; no attribute after the
\* failing one is fetched and nothing is converted
C2_AbsentAborts ==
  \A a \in Idx :
    (Returned /\ HasRow /\ Absent(a))
      => /\ result.status = "Err"
         /\ result.rec = <<>>
         /\ result.step = "Get"
         /\ result.at <= a
         /\ result.err \in {"WBEM_E_NOT_FOUND", "WBEM_E_FAILED"}
         /\ (result.err = "WBEM_E_NOT_FOUND" => Absent(result.at))
         /\ (\A b \in Idx : ~(b < a /\ Absent(b))) /\ result.err = "WBEM_E_NOT_FOUND"
              => result.at = a
         /\ \A b \in Idx : b > result.at => getCalls[b] = 0
         /\ \A b \in Idx : bstr[b] = <<>>

C2_Witness ==
  /\ pc = "done"
  /\ HasRow
  /\ result.err = "WBEM_E_NOT_FOUND"
  /\ result.at > 1
  /\ Absent(result.at)
  /\ getCalls[result.at] = 1

\* C3 (as stated): a value that cannot be rendered as text empties only its
\* own field; the build gives Ok and the other fields are set from the row
C3_MismatchDefaults ==
  \A a \in Idx :
    (Returned /\ HasRow /\ Unrenderable(a) /\ ~ProviderFailure)
      => /\ result.status = "Ok"
         /\ Field(a) = <<>>
         /\ \A b \in Idx \ {a} :
              (~Absent(b) /\ ~Unrenderable(b) /\ ~Malformed(b)) => Field(b) = Expected(b)

\* C3 (amended): a value that cannot be rendered as text makes the build
\* return Err and no record; unless a row.Get failed first, it fails with the
\* VarFormat error at the first such attribute, after which nothing is
\* converted, released or decoded
C3_MismatchAborts ==
  \A a \in Idx :
    (Returned /\ HasRow /\ Unrenderable(a))
      => /\ result.status = "Err"
         /\ result.rec = <<>>
         /\ \/ result.step = "Get"
            \/ /\ result.step = "VarFormat"
               /\ result.err = "DISP_E_TYPEMISMATCH"
               /\ result.at <= a
               /\ Unrenderable(result.at)
               /\ \A b \in Idx : b < result.at => ~Unrenderable(b)
               /\ \A b \in Idx : b >= result.at => bstr[b] = <<>>
               /\ \A b \in Idx : clears[b] = 0 /\ decoded[b] = <<>>

C3_Witness ==
  /\ pc = "done"
  /\ HasRow
  /\ result.err = "DISP_E_TYPEMISMATCH"
  /\ result.at > 1
  /\ Unrenderable(result.at)
  /\ bstr[1] # <<>>

\* C4: when the single cursor advance succeeds and yields no row, the build
\* returns the "Not found" error and no record, and has made no attribute
\* fetch, conversion, release or decoding; "Not found" arises in no other way
C4_NotFound ==
  /\ (hr = "WBEM_S_FALSE" /\ result.status # "pending")
       => /\ result = Err("Not found", "bail", 0)
          /\ \A i \in Idx : /\ getCalls[i] = 0
                            /\ bstr[i] = <<>>
                            /\ clears[i] = 0
                            /\ decoded[i] = <<>>
          /\ stdout = <<>>
  /\ result.err = "Not found"
       => hr = "WBEM_S_FALSE" /\ resultSet = <<>> /\ row = <<>> /\ nextCalls = 1

C4_Witness ==
  /\ pc = "done"
  /\ hr = "WBEM_S_FALSE"
  /\ result.err = "Not found"
  /\ execCalls = 1
  /\ exitCode = 1

\* C5: a failure of ExecQuery, of Next or of a row.Get makes the build
\* return Err with that cause, with exactly the calls up to the failing one
\* made and none after it, and no record; main then prints nothing and exits
\* with the error; a record is printed only when every call succeeded
C5_FatalAborts ==
  /\ result.status = "Err"
       => /\ result.rec = <<>>
          /\ stdout = <<>>
          /\ pc = "done" => exitCode = 1
  /\ result.step = "ExecQuery"
       => /\ result.err = "ExecQuery" /\ execCalls = 1 /\ nextCalls = 0
          /\ query = "none" /\ hr = ""
          /\ \A i \in Idx : getCalls[i] = 0
  /\ result.step = "Next"
       => /\ result.err = "Next" /\ hr = "WBEM_E_FAILED" /\ nextCalls = 1
          /\ row = <<>>
          /\ \A i \in Idx : getCalls[i] = 0
  /\ result.step = "Get"
       => /\ result.err \in {"WBEM_E_FAILED", "WBEM_E_NOT_FOUND"}
          /\ \A i \in Idx : getCalls[i] = (IF i <= result.at THEN 1 ELSE 0)
          /\ outstanding = 1..(result.at - 1)
          /\ \A i \in Idx : bstr[i] = <<>> /\ clears[i] = 0 /\ decoded[i] = <<>>
  /\ (pc = "done" /\ result.status = "pending") => (exitCode = 1 /\ stdout = <<>>)
  /\ stdout # <<>>
       => /\ result.status = "Ok" /\ stdout = result.rec
          /\ execCalls = 1 /\ nextCalls = 1 /\ hr = "WBEM_S_NO_ERROR"
          /\ \A i \in Idx : getCalls[i] = 1 /\ bstr[i] # <<>> /\ clears[i] = 1
                            /\ decoded[i] # <<>>
  /\ exitCode = 0 => stdout # <<>>

C5_Witness ==
  /\ pc = "done"
  /\ result.err = "WBEM_E_FAILED"
  /\ result.at > 1
  /\ exitCode = 1
  /\ stdout = <<>>

\* C6: in one record build the query is submitted at most once, the cursor
\* is advanced at most once, each attribute is fetched at most once, and only
\* the first row of the result set is ever read
C6_SingleAttempt ==
  /\ execCalls <= 1
  /\ nextCalls <= 1
  /\ cursorPos <= 1
  /\ \A i \in Idx : getCalls[i] <= 1
  /\ rowsRead \subseteq {1}
  /\ HasRow => row = <<1>>

C6_Witness ==
  /\ pc = "done"
  /\ Len(resultSet) >= 2
  /\ result.status = "Ok"
  /\ rowsRead = {1}
  /\ cursorPos = 1

\* C7: a record returned by the build holds, in each field, the decoded
\* formatted text of the first row's attribute with the matching name
C7_FieldsMatch ==
  result.status = "Ok"
    => \A i \in Idx :
         /\ ~Absent(i)
         /\ ~Unrenderable(i)
         /\ Field(i) = Expected(i)

C7_Witness ==
  /\ pc = "done"
  /\ result.status = "Ok"
  /\ \E i \in Idx : /\ Field(i) # resultSet[1][AttrNames[i]][1].val
                    /\ Field(i) # <<>>
  /\ \A i, j \in Idx : i # j => Field(i) # Field(j)

\* C8: whenever a decoding step can run or has run, all 13 values have been
\* released; a decoding failure gives Err and no record, the field is not
\* defaulted, and malformed text always ends the build in that error once all
\* fetches, conversions and releases have succeeded
C8_DecodeFailure ==
  /\ (pc \in {"from_utf16", "Ok"} \/ result.step = "from_utf16"
        \/ \E i \in Idx : decoded[i] # <<>>)
       => /\ outstanding = {}
          /\ \A i \in Idx : clears[i] = 1 /\ variant[i] = VT_EMPTY
  /\ result.step = "from_utf16"
       => /\ result.status = "Err"
          /\ result.err = "FromUtf16Error"
          /\ result.rec = <<>>
          /\ Malformed(result.at)
          /\ decoded[result.at] = <<>>
  /\ \A a \in Idx :
       (Returned /\ HasRow /\ Malformed(a) /\ \A i \in Idx : clears[i] = 1)
         => /\ result.step = "from_utf16"
            /\ result.at <= a

C8_Witness ==
  /\ pc = "done"
  /\ result.err = "FromUtf16Error"
  /\ result.at > 1
  /\ decoded[1] # <<>>
  /\ outstanding = {}
  /\ exitCode = 1

\* C9 (as stated): at most one fetched value is outstanding, and attribute i
\* is converted and released before attribute i+1 is fetched
C9_OneOutstanding ==
  /\ Cardinality(outstanding) <= 1
  /\ \A i \in 1..(N - 1) :
       getCalls[i + 1] > 0 => (bstr[i] # <<>> /\ clears[i] = 1)

\* C9 (amended): the values are handled in three successive blocks, each in
\* declaration order: all fetches, then all conversions, then all releases;
\* a value is released only after its own text form has been captured, and
\* up to 13 fetched values are outstanding at once
C9_ThreeBlocks ==
  /\ Cardinality(outstanding) <= N
  /\ \A i \in Idx : clears[i] > 0 => (bstr[i] # <<>> /\ getCalls[i] = 1)
  /\ \A i \in 1..(N - 1) :
       /\ getCalls[i + 1] > 0 => getCalls[i] > 0
       /\ bstr[i + 1] # <<>> => bstr[i] # <<>>
       /\ clears[i + 1] > 0 => clears[i] > 0
  /\ (\E i \in Idx : bstr[i] # <<>>) => \A j \in Idx : getCalls[j] = 1
  /\ (\E i \in Idx : clears[i] > 0) => \A j \in Idx : bstr[j] # <<>>
  /\ (pc = "VarFormat" /\ idx = 1) => outstanding = Idx

C9_Witness ==
  /\ pc = "VariantClear"
  /\ idx = 3
  /\ outstanding = 3..N
  /\ clears[2] = 1

\* C10: every row.Get is made on the row that the single successful cursor
\* advance yielded, while the enumerator and the row reference are still
\* held; both are released when the function is left, on every path
C10_RowValid ==
  [][ /\ getCalls' # getCalls
        => /\ query = "live" /\ rowHandle = "live"
           /\ hr = "WBEM_S_NO_ERROR" /\ nextCalls = 1 /\ cursorPos = 1
           /\ row = <<1>>
           /\ query' = "live" /\ rowHandle' = "live" /\ cursorPos' = 1
      /\ pc' \in {"main", "done"} => (query' # "live" /\ rowHandle' # "live")
      /\ (query' = "released" \/ rowHandle' = "released")
           => (pc' \in {"main", "done"} /\ UNCHANGED getCalls) ]_vars

C10_Witness ==
  /\ pc = "done"
  /\ query = "released"
  /\ rowHandle = "released"
  /\ result.status = "Err"
  /\ \E i \in Idx : getCalls[i] = 1

====
